---- MODULE Spec2Model ----
(***************************************************************************)
(* RSSI localisation and calibration tools of the repository.              *)
(*                                                                         *)
(*   localiser  : src/Indienen/Localisatie-Mediaan.py                      *)
(*   calibrator : src/Indienen/Kalibratie-Mediaan.py                       *)
(*   lateration : trilaterate (localiser), trilaterate_3anchors (server)   *)
(*                                                                         *)
(* Each program has two threads: the UDP listener (a daemon thread) and    *)
(* the GUI thread (render loop + widget callbacks, which run one at a      *)
(* time).  The threads share module-level dictionaries without a lock, so  *)
(* every access of a shared object is a step of its own; accesses of       *)
(* thread-local values are folded into the neighbouring step.              *)
(***************************************************************************)
EXTENDS Integers, Sequences, FiniteSets, TLC

VARIABLES
    env,          \* the run's environment: which program, which senders (never changes)
    seen_ips,     \* localiser: every sender a datagram came from
    raw_log,      \* localiser: the newest RAW_KEEP log lines, newest first
    now,          \* the host clock, time.time(), in seconds
    ip_to_key,    \* dict ip -> anchor label (None: no entry)
    last_ts,      \* per anchor: payload timestamp of the last accepted packet
    \* ---- localiser
    rssi_buf,     \* per anchor: deque(maxlen=CHUNK_N)
    chunk_med,    \* per anchor: last chunk median, None, or nan
    l_pc, l_ip, l_kind, l_key, l_rssi, l_ts, l_arr,  \* listener thread: position and locals
    g_pc, g_label, g_ip, g_todel, g_now, g_k, \* GUI thread: position and locals
    est_dot, info_txt,                        \* what the last render cycle displayed
    \* ---- history and budgets (not program state)
    h_before,     \* ip_to_key when the running on_submit_ip started
    h_push,       \* per anchor: host time of the last append (-1: never)
    h_recent,     \* per anchor: the last CHUNK_N samples appended since the last staleness clear
    h_src,        \* the senders of the samples in each rssi_buf, in arr, and behind each chunk_med
    h_freed,      \* slots an explicit unbind released and nobody was bound to since
    unused_keys, buffers, fill_on, points, state,   \* calibrator
    h_fixed,      \* calibrator: the anchor of the last Fix point, until Start buffer is pressed
    h_ops,        \* calibrator: the list operations the operator has made, in order
    h_rec,        \* calibrator: samples that came to line 227 and points fixed while recording, this session
    h_start,      \* per anchor: Start buffer completed and the buffer was not cleared since
    h_pushed,     \* per anchor: the first MED_WINDOW samples pushed since then
    rec_active, rec_rows,   \* calibrator: recording flag, _rec_rows
    exported,     \* calibrator: the rows of the last export
    l_dist,       \* listener local: state["DIST"] as read for the row
    h_cfg,        \* distances configured, with the listener's anchor selected, since its test at line 227
    metrics_txt, hist_info_txt,   \* calibrator display: fit metrics, histogram statistics
    f_ds, f_ys,   \* fit: distances and RSSI values handed to fit_log_model
    f_gen,        \* the coefficients the values were generated from, if any
    f_res,        \* what fit_log_model gave
    t_pts, t_dd,  \* lateration: anchor positions, squared distances
    t_P,          \* the point the distances were measured from, if any
    t_res, t_res3, \* what trilaterate and trilaterate_3anchors gave
    n_acc,        \* packets accepted so far
    n_ops,        \* operator submissions so far
    c_rssi, c_a0, c_n10,  \* a conversion: RSSI, RSSI at 1 m, ten times the exponent
    c_res, c_res3,        \* what rssi_to_dist and rssi_to_distance gave
    b_in, b_res           \* a band estimate: the arguments and what estimate_dist_band gave

None == "None"

\* chunk_med holds None, a float, or nan (np.median of an empty array)
MedNone  == [is |-> "None"]
MedNaN   == [is |-> "nan"]
Float(v) == [is |-> "float", v |-> v]

\* ------------------------------------------------------------------ bounds
MED_WINDOW == 2    \* calibrator buffer capacity (500 in the source, scaled)
FillMaxAcc == 4    \* calibration runs: accepted packets
FillMaxOps == 3    \* calibration runs: operator actions
PtsMaxAcc  == 2    \* point runs: accepted packets
PtsMaxOps  == 5    \* point runs: operator actions
AsgMaxAcc  == 5    \* auto-assignment runs: accepted packets
RAW_KEEP   == 2    \* lines the raw log keeps (40 in the source, scaled)
LogMaxAcc  == 1    \* logging runs: accepted packets
LogMaxOps  == 2    \* logging runs: operator submissions
CHUNK_N    == 2    \* samples per chunk median (100 in the source, scaled)
WINDOW_S   == 6    \* staleness timeout in seconds
T0         == 10   \* host clock at start (any value > WINDOW_S: time.time() is epoch time)
MaxAdv     == 1    \* how many times the clock advances in a run
BindMaxAcc == 1    \* binding runs: accepted packets
BindMaxOps == 4    \* binding runs: operator submissions
DataMaxAcc == 3    \* data runs: accepted packets
DataMaxOps == 2    \* data runs: operator submissions
EvalMaxAcc == 6    \* evaluation runs: accepted packets
EvalMaxOps == 1    \* evaluation runs: operator submissions

ANC_ORDER == <<"A", "B", "C">>
Keys      == {ANC_ORDER[i] : i \in DOMAIN ANC_ORDER}
IPs       == {"ip1", "ip2", "ip3", "ip4"}
Rssi      == {-60, -100000}      \* dBm, any float a sender writes; the mean of two is an integer
Step      == WINDOW_S + 1        \* seconds the clock advances at a time
MaxNow    == T0 + MaxAdv * Step

NoMap == [ip \in IPs |-> None]
ABC   == [ip \in IPs |-> CASE ip = "ip1" -> "A" [] ip = "ip2" -> "B"
                                [] ip = "ip3" -> "C" [] OTHER -> None]

\* Environments of the localiser.  A binding run has four senders with a steady
\* signal and synchronised clocks and an operator who keeps rebinding; a data run
\* has three senders, of which ip1 has a noisy signal and a clock that was never
\* set (it counts from 0: ts = now - T0).
LocBind == [app |-> "loc", log |-> FALSE, ips |-> IPs, noisy |-> {}, skewed |-> {},
            maxacc |-> BindMaxAcc, maxops |-> BindMaxOps, bound |-> NoMap,
            maxnow |-> T0]
LocData == [app |-> "loc", log |-> FALSE, ips |-> {"ip1", "ip2"}, noisy |-> {"ip1"},
            skewed |-> {"ip1"}, maxacc |-> DataMaxAcc, maxops |-> DataMaxOps,
            bound |-> NoMap, maxnow |-> MaxNow]
\* a logging run: two senders, the raw log and the seen set are looked at.  The
\* listener writes them and the render loop only displays them, so the other
\* runs leave them out.
LocLog  == [app |-> "loc", log |-> TRUE, ips |-> {"ip1", "ip2"}, noisy |-> {}, skewed |-> {},
            maxacc |-> LogMaxAcc, maxops |-> LogMaxOps, bound |-> NoMap, maxnow |-> T0]
LocEval == [app |-> "loc", log |-> FALSE, ips |-> {"ip1", "ip2", "ip3"}, noisy |-> {},
            skewed |-> {}, maxacc |-> EvalMaxAcc, maxops |-> EvalMaxOps,
            bound |-> ABC, maxnow |-> T0]

CalAssign == [app |-> "cal", log |-> FALSE, ips |-> IPs, noisy |-> {}, skewed |-> {},
              maxacc |-> AsgMaxAcc, maxops |-> 0, bound |-> NoMap, maxnow |-> T0]
CalFill   == [app |-> "cal", log |-> FALSE, ips |-> {"ip1"}, noisy |-> {"ip1"}, skewed |-> {},
              maxacc |-> FillMaxAcc, maxops |-> FillMaxOps, bound |-> NoMap, maxnow |-> T0]
\* one sender, enough operator actions for two calibration points and one more
CalPoints == [app |-> "cal", log |-> FALSE, ips |-> {"ip1"}, noisy |-> {"ip1"}, skewed |-> {},
              maxacc |-> PtsMaxAcc, maxops |-> PtsMaxOps, bound |-> NoMap, maxnow |-> T0]

\* what the calibrator's sender reports when its signal varies
CalRssi == {-60, -50}

RssiOf(ip) == IF ip \in env.noisy
              THEN IF env.app = "cal" THEN CalRssi ELSE Rssi
              ELSE {-60}
TsOf(ip)   == IF ip \in env.skewed THEN now - T0 ELSE now

\* ------------------------------------------------------------------ helpers
Min(a, b) == IF a <= b THEN a ELSE b

Last(s, n) == SubSeq(s, Len(s) - Min(n, Len(s)) + 1, Len(s))

IsSuffix(s, t) == Len(s) <= Len(t) /\ s = Last(t, Len(s))

\* collections.deque(maxlen=n).append(x): the oldest element drops out when full
\* a deque that takes new samples at the wrong end
DequeAppendLeft(buf, x, maxlen) == SubSeq(<<x>> \o buf, 1, Min(maxlen, Len(buf) + 1))

\* a deque without a bound that stores a sample three times
DequeAppend_thrice(buf, x, maxlen) == buf \o <<x, x, x>>

DequeAppend(buf, x, maxlen) == Last(Append(buf, x), maxlen)

\* np.median of a sequence of numbers; of an empty array numpy returns nan
Median(arr) ==
    IF arr = <<>> THEN MedNaN
    ELSE LET s == SortSeq(arr, LAMBDA a, b : a < b)
             n == Len(s)
         IN  IF n % 2 = 1 THEN Float(s[(n + 1) \div 2])
             ELSE Float((s[n \div 2] + s[n \div 2 + 1]) \div 2)

\* ip_for_key(key): the ip bound to key, or None
ip_for_key(key) ==
    IF \E ip \in IPs : ip_to_key[ip] = key
    THEN CHOOSE ip \in IPs : ip_to_key[ip] = key
    ELSE None

lLocals  == <<l_ip, l_kind, l_key, l_rssi, l_ts, l_arr>>
hist     == <<h_before, h_push, h_recent, h_src, h_freed>>
gLocals  == <<g_label, g_ip, g_todel, g_now, g_k>>
display  == <<est_dot, info_txt>>
locVars  == <<rssi_buf, chunk_med, l_pc, lLocals, g_pc, gLocals, display,
              hist, n_acc, n_ops>>
recFrame == <<rec_active, rec_rows, exported, h_rec, l_dist>>
calVars  == <<unused_keys, buffers, fill_on, points, h_ops, state, h_start, h_fixed, h_pushed,
              recFrame, h_cfg>>
\* what only the localiser uses
locOnly  == <<rssi_buf, chunk_med, l_ip, l_kind, l_ts, l_arr, g_todel, g_now, g_k,
              display, hist>>
triVars  == <<t_pts, t_dd, t_P, t_res, t_res3>>
logVars  == <<seen_ips, raw_log>>
fitVars  == <<f_ds, f_ys, f_gen, f_res>>
bandVars == <<b_in, b_res>>
convVars == <<c_rssi, c_a0, c_n10, c_res, c_res3>>
calShown == <<metrics_txt, hist_info_txt>>
vars     == <<env, logVars, now, ip_to_key, last_ts, locVars, calVars, triVars, fitVars, calShown,
              convVars, bandVars>>

NotCalled == [kind |-> "none"]

\* no sample is held anywhere
NoSrc == [buf |-> [k \in Keys |-> <<>>], arr |-> <<>>, med |-> [k \in Keys |-> {}]]

\* nothing to record yet in this recording session
NoneYet == [samples |-> 0, fixes |-> 0]

InitBase(e) ==
    /\ env = e
    /\ seen_ips = {} /\ raw_log = <<>>
    /\ unused_keys = ANC_ORDER
    /\ buffers = [k \in Keys |-> <<>>]
    /\ fill_on = [k \in Keys |-> FALSE]
    /\ points = <<>> /\ h_ops = <<>>
    /\ state = [selected_key |-> "A", DIST |-> 1]
    /\ h_start = [k \in Keys |-> FALSE]
    /\ h_fixed = "none"
    /\ h_pushed = [k \in Keys |-> <<>>]
    /\ rec_active = FALSE /\ rec_rows = <<>> /\ exported = <<>> /\ h_rec = NoneYet
    /\ metrics_txt = "" /\ hist_info_txt = MedNone
    /\ l_dist = 0 /\ h_cfg = {}
    /\ now = T0
    /\ ip_to_key = e.bound
    /\ last_ts   = [k \in Keys |-> 0]
    /\ rssi_buf  = [k \in Keys |-> <<>>]
    /\ chunk_med = [k \in Keys |-> MedNone]
    /\ l_pc = "recv" /\ l_ip = None /\ l_kind = None /\ l_key = None /\ l_rssi = 0 /\ l_ts = 0 /\ l_arr = <<>>
    /\ g_pc = "idle" /\ g_label = None /\ g_ip = None /\ g_todel = {} /\ g_now = 0 /\ g_k = 1
    /\ est_dot = "hidden" /\ info_txt = ""
    /\ h_before = NoMap
    /\ h_push   = [k \in Keys |-> -1]
    /\ h_recent = [k \in Keys |-> <<>>]
    /\ h_src = NoSrc
    /\ h_freed = {}
    /\ n_acc = 0 /\ n_ops = 0

\* no conversion is asked for
NoConv ==
    /\ c_rssi = 0 /\ c_a0 = 0 /\ c_n10 = 0 /\ c_res = NotCalled /\ c_res3 = NotCalled
    /\ b_in = NotCalled /\ b_res = NotCalled

InitIn(e) ==
    /\ InitBase(e) /\ NoConv
    /\ f_ds = <<>> /\ f_ys = <<>> /\ f_gen = [is |-> "None"] /\ f_res = NotCalled
    /\ t_pts = <<>> /\ t_dd = <<>> /\ t_P = [is |-> "None"]
    /\ t_res = NotCalled /\ t_res3 = NotCalled

InitLoc == \E e \in {LocBind, LocData, LocEval, LocLog} : InitIn(e)

\* ------------------------------------------------------------------ localiser

\* The clock moves on between any two steps.
Advance ==
    /\ env.app = "loc" /\ g_pc # "dead"
    /\ now + Step <= env.maxnow
    /\ now' = now + Step
    /\ UNCHANGED <<bandVars, convVars, fitVars, triVars, calShown, calVars, env, logVars, ip_to_key, last_ts, locVars>>

\* listener, lines 344-358: receive one datagram, decode it, look the sender up
\* in ip_to_key.  Undecodable JSON is logged and dropped at once (the raw log and
\* the seen set are display state the model leaves out).
\* a log that takes its lines at the far end
Logged_far(line) ==
    IF env.log THEN Last(Append(raw_log, line), RAW_KEEP) ELSE raw_log

\* raw_log.appendleft(line) on a deque(maxlen=RAW_KEEP): the oldest line drops
\* out at the far end
Logged(line) ==
    IF env.log THEN SubSeq(<<line>> \o raw_log, 1, Min(RAW_KEEP, Len(raw_log) + 1))
    ELSE raw_log

LocListener_recv ==
    /\ env.app = "loc" /\ g_pc # "dead" /\ l_pc = "recv"
    /\ \E ip \in env.ips, kind \in {"ok", "badjson", "nofields"} : \E r \in RssiOf(ip) :
         LET key == ip_to_key[ip] IN
         /\ seen_ips' = IF env.log THEN seen_ips \cup {ip} ELSE seen_ips
         /\ IF kind = "badjson"
            THEN /\ raw_log' = Logged([ip |-> ip, k |-> "bad JSON"])
                 /\ UNCHANGED <<l_pc, l_ip, l_kind, l_key, l_rssi, l_ts, n_acc>>
            ELSE /\ l_pc' = "log"
                 /\ l_ip' = ip /\ l_kind' = kind /\ l_key' = key
                 /\ IF kind = "ok" /\ key # None
                    THEN /\ n_acc < env.maxacc
                         /\ n_acc' = n_acc + 1
                         /\ l_rssi' = r /\ l_ts' = TsOf(ip)
                    ELSE UNCHANGED <<l_rssi, l_ts, n_acc>>
                 /\ UNCHANGED raw_log
    /\ UNCHANGED <<bandVars, convVars, fitVars, triVars, calShown, calVars, env, now, ip_to_key, last_ts, rssi_buf, chunk_med, l_arr,
                   g_pc, gLocals, display, hist, n_ops>>

\* lines 361-372: log the packet; drop it when the sender is unbound or a
\* required field is missing
LocListener_log ==
    /\ env.app = "loc" /\ g_pc # "dead" /\ l_pc = "log"
    /\ raw_log' = Logged([ip |-> l_ip, k |-> l_key])
    /\ IF l_key # None /\ l_kind = "ok"
       THEN l_pc' = "append" /\ UNCHANGED <<l_ip, l_key, l_rssi, l_ts>>
       ELSE l_pc' = "recv" /\ l_ip' = None /\ l_key' = None /\ l_rssi' = 0 /\ l_ts' = 0
    /\ l_kind' = None
    /\ UNCHANGED <<bandVars, convVars, fitVars, triVars, calShown, calVars, env, seen_ips, now, ip_to_key, last_ts, rssi_buf, chunk_med, l_arr,
                   g_pc, gLocals, display, hist, n_acc, n_ops>>

\* line 375: rssi_buf[key].append(rssi)
LocListener_append ==
    /\ env.app = "loc" /\ g_pc # "dead" /\ l_pc = "append"
    /\ rssi_buf' = [rssi_buf EXCEPT ![l_key] = DequeAppend(@, l_rssi, CHUNK_N)]
    /\ h_push'   = [h_push EXCEPT ![l_key] = now]
    /\ h_recent' = [h_recent EXCEPT ![l_key] = Last(Append(@, l_rssi), CHUNK_N)]
    /\ h_src'    = [h_src EXCEPT !.buf[l_key] = DequeAppend(@, l_ip, CHUNK_N)]
    /\ l_pc' = "ts" /\ l_ip' = None
    /\ UNCHANGED <<bandVars, convVars, fitVars, triVars, calShown, calVars, env, logVars, now, ip_to_key, last_ts, chunk_med, l_kind, l_key, l_rssi, l_ts, l_arr,
                   g_pc, gLocals, display, h_before, h_freed, n_acc, n_ops>>

\* line 377: last_ts[key] = ts, the timestamp the sender wrote
LocListener_ts ==
    /\ env.app = "loc" /\ g_pc # "dead" /\ l_pc = "ts"
    /\ last_ts' = [last_ts EXCEPT ![l_key] = l_ts]
    /\ l_pc' = "len"
    /\ UNCHANGED <<bandVars, convVars, fitVars, triVars, calShown, calVars, env, logVars, now, ip_to_key, rssi_buf, chunk_med, lLocals,
                   g_pc, gLocals, display, hist, n_acc, n_ops>>

\* line 380: if len(rssi_buf[key]) >= CHUNK_N
LocListener_len ==
    /\ env.app = "loc" /\ g_pc # "dead" /\ l_pc = "len"
    /\ IF Len(rssi_buf[l_key]) >= CHUNK_N
       THEN l_pc' = "arr" /\ UNCHANGED <<l_key, l_rssi, l_ts>>
       ELSE l_pc' = "recv" /\ l_key' = None /\ l_rssi' = 0 /\ l_ts' = 0
    /\ UNCHANGED <<l_ip, l_kind, l_arr>>
    /\ UNCHANGED <<bandVars, convVars, fitVars, triVars, calShown, calVars, env, logVars, now, ip_to_key, last_ts, rssi_buf, chunk_med,
                   g_pc, gLocals, display, hist, n_acc, n_ops>>

\* line 381: arr = np.asarray(rssi_buf[key], float)
LocListener_arr ==
    /\ env.app = "loc" /\ g_pc # "dead" /\ l_pc = "arr"
    /\ l_arr' = rssi_buf[l_key]
    /\ h_src' = [h_src EXCEPT !.arr = h_src.buf[l_key]]
    /\ l_pc' = "med"
    /\ UNCHANGED <<bandVars, convVars, fitVars, triVars, calShown, calVars, env, logVars, now, ip_to_key, last_ts, rssi_buf, chunk_med,
                   l_ip, l_kind, l_key, l_rssi, l_ts,
                   g_pc, gLocals, display, h_before, h_push, h_recent, h_freed, n_acc, n_ops>>

\* line 382: chunk_med[key] = float(np.median(arr))
LocListener_med ==
    /\ env.app = "loc" /\ g_pc # "dead" /\ l_pc = "med"
    /\ chunk_med' = [chunk_med EXCEPT ![l_key] = Median(l_arr)]
    /\ h_src' = [h_src EXCEPT !.med[l_key] = {h_src.arr[i] : i \in DOMAIN h_src.arr}, !.arr = <<>>]
    /\ l_pc' = "clear"
    /\ l_arr' = <<>>
    /\ UNCHANGED <<bandVars, convVars, fitVars, triVars, calShown, calVars, env, logVars, now, ip_to_key, last_ts, rssi_buf,
                   l_ip, l_kind, l_key, l_rssi, l_ts,
                   g_pc, gLocals, display, h_before, h_push, h_recent, h_freed, n_acc, n_ops>>

\* line 383: rssi_buf[key].clear()
LocListener_clear ==
    /\ env.app = "loc" /\ g_pc # "dead" /\ l_pc = "clear"
    /\ rssi_buf' = [rssi_buf EXCEPT ![l_key] = <<>>]
    /\ h_src' = [h_src EXCEPT !.buf[l_key] = <<>>]
    /\ l_pc' = "recv"
    /\ l_key' = None /\ l_rssi' = 0 /\ l_ts' = 0
    /\ UNCHANGED <<bandVars, convVars, fitVars, triVars, calShown, calVars, env, logVars, now, ip_to_key, last_ts, chunk_med, l_ip, l_kind, l_arr,
                   g_pc, gLocals, display, h_before, h_push, h_recent, h_freed, n_acc, n_ops>>

\* ---- GUI thread of the localiser
Texts == {"", " "}                     \* texts without an address: empty, blank

\* txt.strip()
Strip(txt) == IF txt = " " THEN "" ELSE txt

\* a handler that forgets to release the holder of the target slot
ToDel_keepHolder(label_key, ip) ==
    IF ip = ""
    THEN {ip_ \in IPs : ip_to_key[ip_] = label_key}
    ELSE {ip_ \in IPs : ip_to_key[ip_] # None /\ ip_ = ip}

\* a handler that releases every binding
ToDel_all(label_key, ip) == {ip_ \in IPs : ip_to_key[ip_] # None}

\* on_submit_ip, lines 543-547 / 555: the entries to delete
ToDel(label_key, ip) ==
    IF ip = ""
    THEN {ip_ \in IPs : ip_to_key[ip_] = label_key}
    ELSE {ip_ \in IPs : ip_to_key[ip_] # None /\ (ip_to_key[ip_] = label_key \/ ip_ = ip)}

\* where on_submit_ip goes once to_del is exhausted: return (empty text) or line 560
AfterDel(ip) == IF ip = "" THEN "idle" ELSE "set"

\* the GUI thread is back in the event loop: its locals are dead
GuiDone ==
    /\ g_pc' = "idle"
    /\ g_label' = None /\ g_ip' = None /\ g_todel' = {}
    /\ h_before' = NoMap

on_submit_ip ==
    /\ env.app = "loc" /\ g_pc = "idle"
    /\ n_ops < env.maxops
    /\ n_ops' = n_ops + 1
    /\ \E label_key \in Keys, txt \in env.ips \cup Texts :
         LET ip     == Strip(txt)
             to_del == ToDel(label_key, ip)
         IN  IF to_del = {} /\ ip = ""
             THEN GuiDone
             ELSE /\ g_label' = label_key
                  /\ g_ip' = ip
                  /\ g_todel' = to_del
                  /\ g_pc' = IF to_del = {} THEN AfterDel(ip) ELSE "del"
                  /\ h_before' = ip_to_key
    /\ UNCHANGED <<bandVars, convVars, fitVars, triVars, calShown, calVars, env, logVars, now, ip_to_key, last_ts, rssi_buf, chunk_med, l_pc, lLocals,
                   g_now, g_k, display, h_push, h_recent, h_src, h_freed, n_acc>>

\* lines 548-549 / 556-557: del ip_to_key[ip_], one entry per step.  to_del is a
\* list in dict order; the model keeps no dict order and explores every order.
on_submit_ip_del ==
    /\ env.app = "loc" /\ g_pc = "del"
    /\ \E ip_ \in g_todel :
         /\ ip_to_key' = [ip_to_key EXCEPT ![ip_] = None]
         /\ h_freed' = IF g_ip = "" THEN h_freed \cup {g_label} ELSE h_freed
         /\ IF g_todel \ {ip_} = {} /\ AfterDel(g_ip) = "idle"
            THEN GuiDone
            ELSE /\ g_todel' = g_todel \ {ip_}
                 /\ g_pc' = IF g_todel \ {ip_} = {} THEN AfterDel(g_ip) ELSE "del"
                 /\ UNCHANGED <<g_label, g_ip, h_before>>
    /\ UNCHANGED <<bandVars, convVars, fitVars, triVars, calShown, calVars, env, logVars, now, last_ts, rssi_buf, chunk_med, l_pc, lLocals,
                   g_now, g_k, display, h_push, h_recent, h_src, n_acc, n_ops>>

\* line 560: ip_to_key[ip] = label_key
on_submit_ip_set ==
    /\ env.app = "loc" /\ g_pc = "set"
    /\ ip_to_key' = [ip_to_key EXCEPT ![g_ip] = g_label]
    /\ h_freed' = h_freed \ {g_label}
    /\ GuiDone
    /\ UNCHANGED <<bandVars, convVars, fitVars, triVars, calShown, calVars, env, logVars, now, last_ts, rssi_buf, chunk_med, l_pc, lLocals,
                   g_now, g_k, display, h_push, h_recent, h_src, n_acc, n_ops>>

\* render loop, line 581: now = time.time()
Render_begin ==
    /\ env.app = "loc" /\ g_pc = "idle"
    /\ g_now' = now
    /\ g_k' = 1
    /\ g_pc' = "stale"
    /\ UNCHANGED <<bandVars, convVars, fitVars, triVars, calShown, calVars, env, logVars, now, ip_to_key, last_ts, rssi_buf, chunk_med, l_pc, lLocals,
                   g_label, g_ip, g_todel, display, hist, n_acc, n_ops>>

\* a test that finds no anchor stale
IsStale_never(tnow, k) == FALSE

\* line 585: the staleness test of the render loop
IsStale(tnow, k) == (tnow - last_ts[k]) > WINDOW_S

\* lines 584-587, one anchor per step
Render_stale ==
    /\ env.app = "loc" /\ g_pc = "stale"
    /\ LET k == ANC_ORDER[g_k] IN
         IF IsStale(g_now, k)
         THEN /\ rssi_buf'  = [rssi_buf EXCEPT ![k] = <<>>]
              /\ chunk_med' = [chunk_med EXCEPT ![k] = MedNone]
              /\ h_recent'  = [h_recent EXCEPT ![k] = <<>>]
              /\ h_src'     = [h_src EXCEPT !.buf[k] = <<>>, !.med[k] = {}]
         ELSE UNCHANGED <<rssi_buf, chunk_med, h_recent, h_src>>
    /\ IF g_k < Len(ANC_ORDER)
       THEN g_k' = g_k + 1 /\ g_pc' = "stale" /\ UNCHANGED g_now
       ELSE g_k' = 1 /\ g_pc' = "eval" /\ g_now' = 0
    /\ UNCHANGED <<bandVars, convVars, fitVars, triVars, calShown, calVars, env, logVars, now, ip_to_key, last_ts, l_pc, lLocals,
                   g_label, g_ip, g_todel, display, h_before, h_push, h_freed,
                   n_acc, n_ops>>

\* lines 589-658: the anchors that contribute a point and a distance
Pts == {k \in Keys : chunk_med[k] # MedNone}

\* a guard that is content with two anchors
EnoughPts_two == Cardinality(Pts) >= 2

\* CAL_INIT, line 177: rssi1m and n of every anchor, n in tenths.  The sliders
\* move them within -80..-30 and 1.6..6; the model keeps the initial values.
CAL_INIT == [rssi1m |-> -55, n10 |-> 22]

\* rssi_to_dist(rssi, rssi1m, n) = 10 ** ((rssi1m - rssi) / (10.0 * n)), n10 = 10 n.
\* The division raises ZeroDivisionError for n = 0, the power raises
\* OverflowError beyond the float range (10 ** 308); a nan stays a nan.  A
\* distance is kept as its exponent, the fraction <<rssi1m - rssi, n10>>.
rssi_to_dist(med, rssi1m, n10) ==
    IF n10 = 0 THEN [is |-> "ZeroDivisionError"]
    ELSE IF med = MedNaN THEN MedNaN
    ELSE IF rssi1m - med.v > 308 * n10 THEN [is |-> "OverflowError"]
    ELSE [is |-> "dist", e |-> <<rssi1m - med.v, n10>>]

\* lines 593-616: d_med of anchor k, by estimate_dist_band or directly: both
\* start with rssi_to_dist(med, rssi1m, n)
d_med(k) == rssi_to_dist(chunk_med[k], CAL_INIT.rssi1m, CAL_INIT.n10)

\* line 661: if len(pts) >= 3
EnoughPts == Cardinality(Pts) >= 3

\* lines 660-675: the lateration guard and what is displayed.  The coordinates
\* themselves are computed by trilaterate (below); a nan median makes lstsq fail
\* or return nan, depending on the LAPACK build.
Render_eval ==
    /\ env.app = "loc" /\ g_pc = "eval"
    /\ IF \E k \in Pts : d_med(k).is \in {"OverflowError", "ZeroDivisionError"}
       THEN \* raised outside any try: the loop, and with it main(), ends
            g_pc' = "dead" /\ UNCHANGED display
       ELSE /\ g_pc' = "idle"
            /\ IF EnoughPts
               THEN \/ est_dot' = "shown" /\ info_txt' = "EST"
                    \/ /\ \E k \in Pts : chunk_med[k] = MedNaN
                       /\ est_dot' = "hidden" /\ info_txt' = "Trilateratie fout"
               ELSE est_dot' = "hidden" /\ info_txt' = "(3 ankers nodig)"
    /\ UNCHANGED <<bandVars, convVars, fitVars, triVars, calShown, calVars, env, logVars, now, ip_to_key, last_ts, rssi_buf, chunk_med, l_pc, lLocals,
                   gLocals, hist, n_acc, n_ops>>

LocNext ==
    \/ Advance
    \/ LocListener_recv
    \/ LocListener_log
    \/ LocListener_append
    \/ LocListener_ts
    \/ LocListener_len
    \/ LocListener_arr
    \/ LocListener_med
    \/ LocListener_clear
    \/ on_submit_ip
    \/ on_submit_ip_del
    \/ on_submit_ip_set
    \/ Render_begin
    \/ Render_stale
    \/ Render_eval

SpecLoc == InitLoc /\ [][LocNext]_vars

SpecLocBind == InitIn(LocBind) /\ [][LocNext]_vars

SpecLocData == InitIn(LocData) /\ [][LocNext]_vars

SpecLocEval == InitIn(LocEval) /\ [][LocNext]_vars

\* --------------------------------------------------------------- fractions
Abs(v) == IF v < 0 THEN -v ELSE v

RECURSIVE GCD(_, _)
GCD(a, b) == IF b = 0 THEN a ELSE GCD(b, a % b)

\* the fraction n/d in lowest terms, d # 0
Frac(n, d) ==
    LET g == GCD(Abs(n), Abs(d))
        sgn == IF d < 0 THEN -1 ELSE 1
    IN  <<sgn * (n \div g), sgn * (d \div g)>>

\* ------------------------------------------------------------------------ fit
\* fit_log_model in exact arithmetic.  Distances are 0, a negative number or a
\* power of ten, so that log10 is an integer; RSSI values are integers;
\* results are fractions in lowest terms.  Rounding is not modelled.
MaxFitPts == 3                          \* points handed to fit_log_model
FitDists  == {-1, 0, 1, 10, 100}        \* metres
FitRssi   == {-60, -70}                 \* dBm, measured values
FitA0     == {-50, -40}                 \* generating coefficients
FitB0     == {-20, 0}

FitEnv == [app |-> "fit", log |-> FALSE, ips |-> {}, noisy |-> {}, skewed |-> {},
           maxacc |-> 0, maxops |-> 0, bound |-> NoMap, maxnow |-> T0]

\* np.log10 on the distances of the model
Log10(d) == CASE d = 1 -> 0 [] d = 10 -> 1 [] d = 100 -> 2

RECURSIVE SumSeq(_)
SumSeq(q) == IF q = <<>> THEN 0 ELSE Head(q) + SumSeq(Tail(q))

\* a mask that also drops the points at 1 m, where log10 is 0
Mask_gt1(ds) == SelectSeq([i \in 1..Len(ds) |-> i], LAMBDA i : ds[i] > 1)

\* lines 137-138: mask = ds > 0, as the indices kept
Mask(ds) == SelectSeq([i \in 1..Len(ds) |-> i], LAMBDA i : ds[i] > 0)


Raised(err) == [kind |-> "raise", err |-> err]

\* fit_log_model, lines 140-161, for the points kept.  With x = log10(d),
\* lstsq gives the regression line; if all x are equal the matrix has rank 1
\* and lstsq gives the solution of minimal norm, mean(y) (1, x) / (1 + x^2).
\* The coefficients are Na/D and Nb/D.
Fitted(distances, rssi_values) ==
    LET keep == Mask(distances)
        n    == Len(keep)
        x    == [j \in 1..n |-> Log10(distances[keep[j]])]
        y    == [j \in 1..n |-> rssi_values[keep[j]]]
        Sx   == SumSeq(x)
        Sy   == SumSeq(y)
        Sxx  == SumSeq([j \in 1..n |-> x[j] * x[j]])
        Sxy  == SumSeq([j \in 1..n |-> x[j] * y[j]])
        reg  == n * Sxx - Sx * Sx
        D    == IF reg # 0 THEN reg ELSE n * (1 + x[1] * x[1])
        Na   == IF reg # 0 THEN Sy * Sxx - Sx * Sxy ELSE Sy
        Nb   == IF reg # 0 THEN n * Sxy - Sx * Sy ELSE Sy * x[1]
        res  == SumSeq([j \in 1..n |-> (D * y[j] - Na - Nb * x[j]) * (D * y[j] - Na - Nb * x[j])])
        tot  == SumSeq([j \in 1..n |-> (n * y[j] - Sy) * (n * y[j] - Sy)])
    IN  [kind |-> "return",
         a  |-> Frac(Na, D),
         b  |-> Frac(Nb, D),
         n  |-> Frac(-Nb, 10 * D),
         r2 |-> IF tot > 0 THEN Frac(tot * D * D - res * n * n, tot * D * D)
                ELSE Frac(1, 1)]

\* a fit that is content with one point
fit_log_model_one(distances, rssi_values) ==
    IF Len(Mask(distances)) < 1 THEN Raised("ValueError")
    ELSE Fitted(distances, rssi_values)

\* fit_log_model(distances, rssi_values), lines 136-139: fewer than 2 points
\* with d > 0 raise ValueError("min. 2 punten met d>0 nodig")
fit_log_model(distances, rssi_values) ==
    IF Len(Mask(distances)) < 2 THEN Raised("ValueError")
    ELSE Fitted(distances, rssi_values)

\* how many of the distances are positive
Positive(ds) == Cardinality({i \in 1..Len(ds) : ds[i] > 0})

\* ----------------------------------------------------------------- calibrator
Dists == {0, 1}        \* slider positions (0.0 .. 10.0 in the source), in metres

\* an assignment that hands out the last unused slot
LastUnused(unused) == unused[Len(unused)]

\* line 194: unused_keys.pop(0) returns the first slot never assigned
FirstUnused(unused) == Head(unused)

\* current_median(key): (median, count) of the buffer; (None, 0) when empty
\* a median that is the oldest sample
current_median_oldest(key) ==
    IF buffers[key] = <<>> THEN <<MedNone, 0>>
    ELSE <<Float(buffers[key][1]), Len(buffers[key])>>

current_median(key) ==
    IF buffers[key] = <<>> THEN <<MedNone, 0>>
    ELSE <<Median(buffers[key]), Len(buffers[key])>>

CalListenerRest == l_pc' = "recv" /\ l_key' = None /\ l_rssi' = 0

\* the fill part is done: on to the recording part, line 227
CalListenerToRec == l_pc' = "rec" /\ UNCHANGED <<l_key, l_rssi>>

\* listener, lines 180-214: receive and decode a datagram, look the sender up
\* and give it the first unused slot if it has none, read the fields, note the
\* last-seen timestamp.  Only this thread touches ip_to_key and unused_keys.
CalListener_recv ==
    /\ env.app = "cal" /\ l_pc = "recv"
    /\ \E ip \in env.ips, kind \in {"ok", "badjson", "nofields"} : \E r \in RssiOf(ip) :
         LET assign == ip_to_key[ip] = None /\ unused_keys # <<>>
             key    == IF assign THEN FirstUnused(unused_keys) ELSE ip_to_key[ip]
         IN  IF kind = "badjson"
             THEN UNCHANGED <<ip_to_key, unused_keys, last_ts, l_pc, l_key, l_rssi, n_acc>>
             ELSE /\ ip_to_key' = IF assign THEN [ip_to_key EXCEPT ![ip] = key]
                                  ELSE ip_to_key
                  /\ unused_keys' = IF assign THEN Tail(unused_keys) ELSE unused_keys
                  /\ IF key = None \/ kind = "nofields"
                     THEN UNCHANGED <<last_ts, l_pc, l_key, l_rssi, n_acc>>
                     ELSE /\ n_acc < env.maxacc
                          /\ n_acc' = n_acc + 1
                          /\ last_ts' = [last_ts EXCEPT ![key] = TsOf(ip)]
                          /\ l_pc' = "fill" /\ l_key' = key /\ l_rssi' = r
    /\ UNCHANGED <<bandVars, convVars, fitVars, triVars, env, logVars, now, buffers, fill_on, points, h_ops, state, h_start, h_fixed, h_pushed,
                   recFrame, h_cfg, calShown, locOnly, g_pc, g_label, g_ip, n_ops>>

\* line 218: if fill_on.get(key, False) and len(buffers[key]) < MED_WINDOW
CalListener_fill ==
    /\ env.app = "cal" /\ l_pc = "fill"
    /\ h_pushed' = IF h_start[l_key] /\ Len(h_pushed[l_key]) < MED_WINDOW
                   THEN [h_pushed EXCEPT ![l_key] = Append(@, l_rssi)]
                   ELSE h_pushed
    /\ IF fill_on[l_key] /\ Len(buffers[l_key]) < MED_WINDOW
       THEN l_pc' = "append" /\ UNCHANGED <<l_key, l_rssi>>
       ELSE CalListenerToRec
    /\ UNCHANGED <<bandVars, convVars, fitVars, triVars, env, logVars, now, ip_to_key, last_ts, unused_keys, buffers, fill_on, points, h_ops,
                   state, h_start, h_fixed, recFrame, h_cfg, calShown, locOnly, g_pc, g_label, g_ip, n_acc, n_ops>>

\* line 219: buffers[key].append(rssi)
CalListener_append ==
    /\ env.app = "cal" /\ l_pc = "append"
    /\ buffers' = [buffers EXCEPT ![l_key] = DequeAppend(@, l_rssi, MED_WINDOW)]
    /\ l_pc' = "lenchk"
    /\ UNCHANGED <<bandVars, convVars, fitVars, triVars, env, logVars, now, ip_to_key, last_ts, unused_keys, fill_on, points, h_ops, state,
                   h_start, h_fixed, h_pushed, recFrame, h_cfg, calShown, locOnly, l_key, l_rssi, g_pc, g_label, g_ip,
                   n_acc, n_ops>>

\* line 222: if len(buffers[key]) >= MED_WINDOW
CalListener_lenchk ==
    /\ env.app = "cal" /\ l_pc = "lenchk"
    /\ IF Len(buffers[l_key]) >= MED_WINDOW
       THEN l_pc' = "filloff" /\ UNCHANGED <<l_key, l_rssi>>
       ELSE CalListenerToRec
    /\ UNCHANGED <<bandVars, convVars, fitVars, triVars, env, logVars, now, ip_to_key, last_ts, unused_keys, buffers, fill_on, points, h_ops,
                   state, h_start, h_fixed, h_pushed, recFrame, h_cfg, calShown, locOnly, g_pc, g_label, g_ip, n_acc, n_ops>>

\* line 223: fill_on[key] = False
CalListener_filloff ==
    /\ env.app = "cal" /\ l_pc = "filloff"
    /\ fill_on' = [fill_on EXCEPT ![l_key] = FALSE]
    /\ CalListenerToRec
    /\ UNCHANGED <<bandVars, convVars, fitVars, triVars, env, logVars, now, ip_to_key, last_ts, unused_keys, buffers, points, h_ops, state,
                   h_start, h_fixed, h_pushed, recFrame, h_cfg, calShown, locOnly, g_pc, g_label, g_ip, n_acc, n_ops>>

\* line 227: if rec_active and key == state["selected_key"]
CalListener_rec ==
    /\ env.app = "cal" /\ l_pc = "rec"
    /\ IF rec_active /\ l_key = state.selected_key
       THEN /\ l_pc' = "rec_dist" /\ UNCHANGED <<l_key, l_rssi>>
            /\ h_cfg' = {state.DIST}
       ELSE CalListenerRest /\ UNCHANGED h_cfg
    /\ h_rec' = IF rec_active THEN [h_rec EXCEPT !.samples = @ + 1] ELSE h_rec
    /\ UNCHANGED <<bandVars, convVars, fitVars, triVars, env, logVars, now, ip_to_key, last_ts, unused_keys, buffers, fill_on,
                   points, h_ops, state, h_start, h_fixed, h_pushed, rec_active, rec_rows, exported, l_dist,
                   calShown, locOnly, g_pc, g_label, g_ip, n_acc, n_ops>>

\* lines 228-232: build the row; dist_m is state["DIST"] as it is now
CalListener_rec_dist ==
    /\ env.app = "cal" /\ l_pc = "rec_dist"
    /\ l_dist' = state.DIST
    /\ l_pc' = "rec_add"
    /\ UNCHANGED <<bandVars, convVars, fitVars, triVars, env, logVars, now, ip_to_key, last_ts, unused_keys, buffers, fill_on,
                   points, h_ops, state, h_start, h_fixed, h_pushed, rec_active, rec_rows, exported, h_rec,
                   h_cfg, calShown, locOnly, l_key, l_rssi, g_pc, g_label, g_ip, n_acc, n_ops>>

\* _rec_add, lines 78-79: if not rec_active: return
CalListener_rec_add ==
    /\ env.app = "cal" /\ l_pc = "rec_add"
    /\ IF rec_active
       THEN /\ l_pc' = "rec_append"
            /\ UNCHANGED <<l_key, l_rssi, l_dist, h_cfg>>
       ELSE /\ l_dist' = 0 /\ h_cfg' = {}
            /\ CalListenerRest
    /\ UNCHANGED <<bandVars, convVars, fitVars, triVars, env, logVars, now, ip_to_key, last_ts, unused_keys, buffers, fill_on,
                   points, h_ops, state, h_start, h_fixed, h_pushed, rec_active, rec_rows, exported, h_rec,
                   calShown, locOnly, g_pc, g_label, g_ip, n_acc, n_ops>>

\* _rec_add, lines 81-83: append the row under _rec_lock.  host_ip is the
\* sender: the one identifier bound to key, as the calibrator never changes a
\* binding.
CalListener_rec_append ==
    /\ env.app = "cal" /\ l_pc = "rec_append"
    /\ rec_rows' = Append(rec_rows, [host_ip |-> ip_for_key(l_key),
                                     rssi_dbm |-> l_rssi, dist_m |-> l_dist])
    /\ l_dist' = 0 /\ h_cfg' = {}
    /\ CalListenerRest
    /\ UNCHANGED <<bandVars, convVars, fitVars, triVars, env, logVars, now, ip_to_key, last_ts, unused_keys, buffers, fill_on,
                   points, h_ops, state, h_start, h_fixed, h_pushed, rec_active, exported, h_rec,
                   calShown, locOnly, g_pc, g_label, g_ip, n_acc, n_ops>>

AllOff == [k \in Keys |-> FALSE]

CalGuiDone == g_pc' = "idle" /\ g_label' = None

\* the handlers below leave these alone
calGuiFrame0 == <<bandVars, convVars, fitVars, triVars, calShown, env, logVars, now, ip_to_key, last_ts, unused_keys, locOnly, l_pc, l_key,
                  l_rssi, l_dist, g_ip, n_acc>>
calGuiFrame == <<calGuiFrame0, rec_active, rec_rows, exported, h_rec, h_cfg>>

\* the configuration changes while the listener is tagging a row: note the
\* distance if the listener's anchor is the selected one
NoteCfg(st) ==
    h_cfg' = IF l_pc \in {"rec_dist", "rec_add", "rec_append"} /\ st.selected_key = l_key
             THEN h_cfg \cup {st.DIST} ELSE h_cfg

\* line 306: sl_dist.on_changed(lambda v: state.update(DIST=float(v)))
on_changed ==
    /\ env.app = "cal" /\ g_pc = "idle"
    /\ n_ops < env.maxops /\ n_ops' = n_ops + 1
    /\ \E v \in Dists \ {state.DIST} : state' = [state EXCEPT !.DIST = v]
    /\ NoteCfg(state')
    /\ UNCHANGED <<calGuiFrame0, rec_active, rec_rows, exported, h_rec, buffers, fill_on, points, h_ops, h_start, h_fixed, h_pushed, g_pc, g_label>>

\* on_radio, lines 284-286: select the anchor and switch every fill off
on_radio ==
    /\ env.app = "cal" /\ g_pc = "idle"
    /\ n_ops < env.maxops /\ n_ops' = n_ops + 1
    /\ \E label \in Keys :
         /\ state' = [state EXCEPT !.selected_key = label]
         /\ g_label' = label
    /\ fill_on' = AllOff
    /\ h_start' = AllOff
    /\ g_pc' = "radio_clear"
    /\ NoteCfg(state')
    /\ UNCHANGED <<calGuiFrame0, rec_active, rec_rows, exported, h_rec, buffers, points, h_ops, h_pushed,
                   h_fixed>>

\* on_radio, line 287: clear_buffer(label)
on_radio_clear ==
    /\ env.app = "cal" /\ g_pc = "radio_clear"
    /\ buffers' = [buffers EXCEPT ![g_label] = <<>>]
    /\ CalGuiDone
    /\ UNCHANGED <<calGuiFrame, fill_on, points, h_ops, state, h_start, h_fixed, h_pushed, n_ops>>

\* on_start, lines 388-389: k = state["selected_key"]; clear_buffer(k)
on_start ==
    /\ env.app = "cal" /\ g_pc = "idle"
    /\ n_ops < env.maxops /\ n_ops' = n_ops + 1
    /\ g_label' = state.selected_key
    /\ buffers' = [buffers EXCEPT ![state.selected_key] = <<>>]
    /\ h_start' = AllOff
    /\ h_fixed' = "none"
    /\ g_pc' = "start_off"
    /\ UNCHANGED <<calGuiFrame, fill_on, points, h_ops, state, h_pushed>>

\* on_start, lines 390-391: for kk in ANC_ORDER: fill_on[kk] = False
on_start_off ==
    /\ env.app = "cal" /\ g_pc = "start_off"
    /\ fill_on' = AllOff
    /\ g_pc' = "start_on"
    /\ UNCHANGED <<calGuiFrame, buffers, points, h_ops, state, h_start, h_fixed, h_pushed, g_label, n_ops>>

\* on_start, line 392: fill_on[k] = True
on_start_on ==
    /\ env.app = "cal" /\ g_pc = "start_on"
    /\ fill_on' = [fill_on EXCEPT ![g_label] = TRUE]
    /\ h_start' = [h_start EXCEPT ![g_label] = TRUE]
    /\ h_pushed' = [h_pushed EXCEPT ![g_label] = <<>>]
    /\ CalGuiDone
    /\ UNCHANGED <<calGuiFrame, buffers, points, h_ops, state, h_fixed, n_ops>>

\* on_fix, lines 399-400 and current_median, lines 115-117: the selected
\* key, and whether its buffer holds anything; without samples return
on_fix ==
    /\ env.app = "cal" /\ g_pc = "idle"
    /\ n_ops < env.maxops /\ n_ops' = n_ops + 1
    /\ IF buffers[state.selected_key] = <<>>
       THEN UNCHANGED <<g_pc, g_label>>
       ELSE g_label' = state.selected_key /\ g_pc' = "fix_snap"
    /\ UNCHANGED <<calGuiFrame, buffers, fill_on, points, h_ops, state, h_start, h_fixed, h_pushed>>

\* current_median, lines 118-119, and on_fix, lines 405-406: median and count
\* of one np.asarray copy of the buffer; append the point
on_fix_snap ==
    /\ env.app = "cal" /\ g_pc = "fix_snap"
    /\ LET k   == g_label
           med == current_median(k)[1]
           cnt == current_median(k)[2]
           p   == [key |-> k, dist |-> state.DIST, rssi |-> med.v, samples |-> cnt]
       IN  /\ points' = Append(points, p)
           /\ h_ops' = Append(h_ops, [op |-> "fix", p |-> p])
           /\ h_start' = [h_start EXCEPT ![k] = FALSE]
    /\ h_rec' = IF rec_active THEN [h_rec EXCEPT !.fixes = @ + 1] ELSE h_rec
    /\ g_pc' = "fix_clear"
    /\ UNCHANGED <<calGuiFrame0, rec_active, rec_rows, exported, h_cfg, buffers, fill_on, state,
                   h_pushed, h_fixed, g_label, n_ops>>

\* on_fix, line 408: clear_buffer(k)
on_fix_clear ==
    /\ env.app = "cal" /\ g_pc = "fix_clear"
    /\ buffers' = [buffers EXCEPT ![g_label] = <<>>]
    /\ g_pc' = "fix_off"
    /\ UNCHANGED <<calGuiFrame, fill_on, points, h_ops, state, h_start, h_fixed, h_pushed, g_label, n_ops>>

\* on_fix, line 409: fill_on[k] = False
on_fix_off ==
    /\ env.app = "cal" /\ g_pc = "fix_off"
    /\ fill_on' = [fill_on EXCEPT ![g_label] = FALSE]
    /\ h_fixed' = g_label
    /\ CalGuiDone
    /\ UNCHANGED <<calGuiFrame, buffers, points, h_ops, state, h_start, h_pushed, n_ops>>

\* a pop at the wrong end
ListPopFirst(q) == Tail(q)

\* list.pop() of a non-empty list
ListPop(q) == SubSeq(q, 1, Len(q) - 1)

\* on_undo, lines 415-417: drop the last point, if any
on_undo ==
    /\ env.app = "cal" /\ g_pc = "idle"
    /\ n_ops < env.maxops /\ n_ops' = n_ops + 1
    /\ points' = IF points # <<>> THEN ListPop(points) ELSE points
    /\ h_ops' = Append(h_ops, [op |-> "undo"])
    /\ UNCHANGED <<calGuiFrame, buffers, fill_on, state, h_start, h_fixed, h_pushed, g_pc, g_label>>

\* on_clear, lines 421-422: drop every point
on_clear ==
    /\ env.app = "cal" /\ g_pc = "idle"
    /\ n_ops < env.maxops /\ n_ops' = n_ops + 1
    /\ points' = <<>>
    /\ h_ops' = Append(h_ops, [op |-> "clear"])
    /\ UNCHANGED <<calGuiFrame, buffers, fill_on, state, h_start, h_fixed, h_pushed, g_pc, g_label>>

\* on_rec_start, lines 428-429: with _rec_lock: _rec_rows = []
on_rec_start ==
    /\ env.app = "cal" /\ g_pc = "idle"
    /\ n_ops < env.maxops /\ n_ops' = n_ops + 1
    /\ rec_rows' = <<>>
    /\ h_rec' = NoneYet
    /\ g_pc' = "rec_on"
    /\ UNCHANGED <<calGuiFrame0, rec_active, exported, h_cfg, buffers, fill_on, points, h_ops, state,
                   h_start, h_fixed, h_pushed, g_label>>

\* on_rec_start, line 430: rec_active = True
on_rec_start_on ==
    /\ env.app = "cal" /\ g_pc = "rec_on"
    /\ rec_active' = TRUE
    /\ g_pc' = "idle"
    /\ UNCHANGED <<calGuiFrame0, rec_rows, exported, h_rec, h_cfg, buffers, fill_on, points, h_ops, state,
                   h_start, h_fixed, h_pushed, g_label, n_ops>>

\* on_rec_stop, line 438: rec_active = False
on_rec_stop ==
    /\ env.app = "cal" /\ g_pc = "idle"
    /\ n_ops < env.maxops /\ n_ops' = n_ops + 1
    /\ rec_active' = FALSE
    /\ g_pc' = "export"
    /\ UNCHANGED <<calGuiFrame0, rec_rows, exported, h_rec, h_cfg, buffers, fill_on, points, h_ops, state,
                   h_start, h_fixed, h_pushed, g_label>>

\* _rec_export, lines 88-89: if not _rec_rows: return None
on_rec_stop_export ==
    /\ env.app = "cal" /\ g_pc = "export"
    /\ g_pc' = IF rec_rows = <<>> THEN "idle" ELSE "export_copy"
    /\ UNCHANGED <<calGuiFrame, buffers, fill_on, points, h_ops, state, h_start, h_fixed, h_pushed,
                   g_label, n_ops>>

\* _rec_export, lines 97-106: copy the rows under _rec_lock and write them
on_rec_stop_copy ==
    /\ env.app = "cal" /\ g_pc = "export_copy"
    /\ exported' = rec_rows
    /\ g_pc' = "idle"
    /\ UNCHANGED <<calGuiFrame0, rec_active, rec_rows, h_rec, h_cfg, buffers, fill_on, points, h_ops, state,
                   h_start, h_fixed, h_pushed, g_label, n_ops>>

\* the render loop leaves these alone
calRenderFrame == <<bandVars, convVars, fitVars, triVars, env, logVars, now, ip_to_key, last_ts, calVars, locOnly,
                    l_pc, l_key, l_rssi, g_label, g_ip, n_acc, n_ops>>

\* render loop, lines 461-480: the fit of the calibration points.  The loop
\* runs in the GUI thread between two plt.pause calls, so that no handler
\* runs inside it.
HasFitInput(xs) == Len(xs) >= 2 /\ Positive(xs) >= 2

CalRender_fit ==
    /\ env.app = "cal" /\ g_pc = "idle"
    /\ LET xs == [i \in 1..Len(points) |-> points[i].dist]
           ys == [i \in 1..Len(points) |-> points[i].rssi]
       IN  metrics_txt' = IF HasFitInput(xs)
                          THEN IF fit_log_model(xs, ys).kind = "return"
                               THEN "fit" ELSE "Fit error"
                          ELSE "Add >= 2 points"
    /\ g_pc' = "hist"
    /\ UNCHANGED <<calRenderFrame, hist_info_txt>>

\* render loop, lines 482-524: the histogram of the selected buffer, from one
\* np.asarray copy of it; then plt.pause
CalRender_hist ==
    /\ env.app = "cal" /\ g_pc = "hist"
    /\ hist_info_txt' = IF buffers[state.selected_key] # <<>>
                        THEN Median(buffers[state.selected_key])
                        ELSE hist_info_txt
    /\ g_pc' = "idle"
    /\ UNCHANGED <<calRenderFrame, metrics_txt>>

CalNext ==
    \/ CalRender_fit
    \/ CalRender_hist
    \/ CalListener_recv
    \/ CalListener_fill
    \/ CalListener_append
    \/ CalListener_lenchk
    \/ CalListener_filloff
    \/ CalListener_rec
    \/ CalListener_rec_dist
    \/ CalListener_rec_add
    \/ CalListener_rec_append
    \/ on_changed
    \/ on_radio
    \/ on_radio_clear
    \/ on_start
    \/ on_start_off
    \/ on_start_on
    \/ on_fix
    \/ on_fix_snap
    \/ on_fix_clear
    \/ on_fix_off
    \/ on_undo
    \/ on_clear
    \/ on_rec_start
    \/ on_rec_start_on
    \/ on_rec_stop
    \/ on_rec_stop_export
    \/ on_rec_stop_copy

InitCal == \E e \in {CalAssign, CalFill, CalPoints} : InitIn(e)

SpecCal == InitCal /\ [][CalNext]_vars

SpecCalFill == InitIn(CalFill) /\ [][CalNext]_vars

\* both programs
Init == InitLoc \/ InitCal

Next == LocNext \/ CalNext

Spec == Init /\ [][Next]_vars

\* ----------------------------------------------------------------- lateration
\* Exact arithmetic: coordinates are integers, a distance enters only through
\* its square, results are fractions <<numerator, denominator>> in lowest terms.
\* Rounding of the floating-point operations is not modelled.
XS == {0, 1, 2, 5, 10}
YS == {0, 8}
Anchors == XS \X YS                          \* positions an anchor can be put at
TruePoints == {<<3, 4>>, <<1, 1>>}           \* positions of the transmitter
SqDists == {1, 4}                            \* squared distances, any positive

TriEnv == [app |-> "tri", log |-> FALSE, ips |-> {}, noisy |-> {}, skewed |-> {},
           maxacc |-> 0, maxops |-> 0, bound |-> NoMap, maxnow |-> T0]

Returned(x, y) == [kind |-> "return", x |-> x, y |-> y]

\* squared distance between two points
SqDist(p, q) == (p[1] - q[1]) * (p[1] - q[1]) + (p[2] - q[2]) * (p[2] - q[2])

\* line 250 / server.py 130-131: a row of A
RowA(p, p1) == <<2 * (p[1] - p1[1]), 2 * (p[2] - p1[2])>>

\* an entry of b with the sign of the squared distances flipped
RowB_plus(p, dd, p1, dd1) ==
    (p[1] * p[1] + p[2] * p[2] + dd) - (p1[1] * p1[1] + p1[2] * p1[2] + dd1)

\* line 251 / server.py 132-133: an entry of b
RowB(p, dd, p1, dd1) ==
    (p[1] * p[1] + p[2] * p[2] - dd) - (p1[1] * p1[1] + p1[2] * p1[2] - dd1)

Det(A) == A[1][1] * A[2][2] - A[1][2] * A[2][1]

\* Cramer's rule, server.py 137-138
Cramer(A, b) ==
    Returned(Frac(b[1] * A[2][2] - A[1][2] * b[2], Det(A)),
             Frac(-b[1] * A[2][1] + A[1][1] * b[2], Det(A)))

\* np.linalg.lstsq(A, b, rcond=None) for a 2x2 system: the solution when A is
\* regular, else the least-squares solution of minimal norm, which for a
\* matrix of rank 1 is A^T b / ||A||_F^2 and for the zero matrix is 0.  It
\* never raises for finite input.
lstsq(A, b) ==
    LET f == A[1][1] * A[1][1] + A[1][2] * A[1][2] + A[2][1] * A[2][1] + A[2][2] * A[2][2]
    IN  IF Det(A) # 0 THEN Cramer(A, b)
        ELSE IF f = 0 THEN Returned(Frac(0, 1), Frac(0, 1))
        ELSE Returned(Frac(A[1][1] * b[1] + A[2][1] * b[2], f),
                      Frac(A[1][2] * b[1] + A[2][2] * b[2], f))

\* trilaterate(points_xy, dists), dd[i] = dists[i]^2
trilaterate(points_xy, dd) ==
    LET A == <<RowA(points_xy[2], points_xy[1]), RowA(points_xy[3], points_xy[1])>>
        b == <<RowB(points_xy[2], dd[2], points_xy[1], dd[1]),
               RowB(points_xy[3], dd[3], points_xy[1], dd[1])>>
    IN  lstsq(A, b)

\* trilaterate_3anchors(anchors), the anchors in the order of their ids and
\* dd[i] the square of the distance rssi_to_distance gives for anchor i.
\* The determinant is an integer here, so abs(det) < 1e-9 means det = 0.
trilaterate_3anchors(pos, dd) ==
    IF Len(pos) # 3 THEN Returned(Frac(0, 1), Frac(0, 1))
    ELSE LET A == <<RowA(pos[2], pos[1]), RowA(pos[3], pos[1])>>
             b == <<RowB(pos[2], dd[2], pos[1], dd[1]),
                    RowB(pos[3], dd[3], pos[1], dd[1])>>
         IN  IF Det(A) = 0 THEN Returned(Frac(0, 1), Frac(0, 1))
             ELSE Cramer(A, b)

InitTri ==
    /\ InitBase(TriEnv) /\ NoConv
    /\ f_ds = <<>> /\ f_ys = <<>> /\ f_gen = [is |-> "None"] /\ f_res = NotCalled
    /\ t_pts \in Anchors \X Anchors \X Anchors
    /\ \/ /\ t_P \in {[is |-> "point", xy |-> q] : q \in TruePoints}
          /\ t_dd = <<SqDist(t_P.xy, t_pts[1]), SqDist(t_P.xy, t_pts[2]),
                      SqDist(t_P.xy, t_pts[3])>>
       \/ /\ t_P = [is |-> "None"]
          /\ t_dd \in SqDists \X SqDists \X SqDists
    /\ t_res = NotCalled /\ t_res3 = NotCalled

triFrame == <<env, logVars, now, ip_to_key, last_ts, locVars, calVars, t_pts, t_dd, t_P>>

Tri_trilaterate ==
    /\ env.app = "tri" /\ t_res = NotCalled
    /\ t_res' = trilaterate(t_pts, t_dd)
    /\ UNCHANGED <<bandVars, convVars, fitVars, calShown, triFrame, t_res3>>

Tri_trilaterate_3anchors ==
    /\ env.app = "tri" /\ t_res3 = NotCalled
    /\ t_res3' = trilaterate_3anchors(t_pts, t_dd)
    /\ UNCHANGED <<bandVars, convVars, fitVars, calShown, triFrame, t_res>>

TriNext == Tri_trilaterate \/ Tri_trilaterate_3anchors

SpecTri == InitTri /\ [][TriNext]_vars

Collinear(pts) == Det(<<RowA(pts[2], pts[1]), RowA(pts[3], pts[1])>>) = 0

\* C6: for 3 collinear anchors and any positive distances the solver reports
\* a failure: neither trilaterate nor trilaterate_3anchors returns coordinates.
C6_SingularReported ==
    (env.app = "tri" /\ Collinear(t_pts))
        => t_res.kind # "return" /\ t_res3.kind # "return"

\* C7: for 3 anchors not on a line and distances measured exactly from a point
\* P, trilaterate returns P, and so does trilaterate_3anchors.
C7_ExactRecovery ==
    (env.app = "tri" /\ ~Collinear(t_pts) /\ t_P.is = "point")
        => /\ t_res.kind = "return"
                => t_res.x = Frac(t_P.xy[1], 1) /\ t_res.y = Frac(t_P.xy[2], 1)
           /\ t_res3.kind = "return"
                => t_res3.x = Frac(t_P.xy[1], 1) /\ t_res3.y = Frac(t_P.xy[2], 1)

\* the example of the specification, solved
C7_Witness ==
    /\ t_pts = <<(<<0, 0>>), (<<10, 0>>), (<<5, 8>>)>>
    /\ t_P = [is |-> "point", xy |-> <<3, 4>>]
    /\ t_res = Returned(<<3, 1>>, <<4, 1>>)
    /\ t_res3 = Returned(<<3, 1>>, <<4, 1>>)

\* ------------------------------------------------------------- fit, checked

\* sequences over S of length 0 .. n
SeqsUpTo(S, n) == UNION {[1..m -> S] : m \in 0..n}

InitFit ==
    /\ InitBase(FitEnv) /\ NoConv
    /\ t_pts = <<>> /\ t_dd = <<>> /\ t_P = [is |-> "None"]
    /\ t_res = NotCalled /\ t_res3 = NotCalled
    /\ f_ds \in SeqsUpTo(FitDists, MaxFitPts)
    /\ \/ /\ f_gen = [is |-> "None"]
          /\ f_ys \in [1..Len(f_ds) -> FitRssi]
       \/ /\ f_gen \in {[is |-> "line", a0 |-> a0, b0 |-> b0] : a0 \in FitA0, b0 \in FitB0}
          /\ f_ys = [i \in 1..Len(f_ds) |->
                        IF f_ds[i] > 0 THEN f_gen.a0 + f_gen.b0 * Log10(f_ds[i]) ELSE 0]
    /\ f_res = NotCalled

Fit_fit_log_model ==
    /\ env.app = "fit" /\ f_res = NotCalled
    /\ f_res' = fit_log_model(f_ds, f_ys)
    /\ UNCHANGED <<env, logVars, now, ip_to_key, last_ts, locVars, calVars, triVars, calShown,
                   bandVars, convVars, f_ds, f_ys, f_gen>>

FitNext == Fit_fit_log_model

SpecFit == InitFit /\ [][FitNext]_vars

SpecFitCal == (InitFit \/ InitCal) /\ [][FitNext \/ CalNext]_vars

\* the render loop passes its fit part
RenderFitStep == env.app = "cal" /\ g_pc = "idle" /\ g_pc' = "hist"

PointDists == [i \in 1..Len(points) |-> points[i].dist]

\* C14: fit_log_model given a list in which fewer than 2 points have distance
\* > 0 raises and returns no coefficients, and the render loop of the
\* calibrator shows no fit for such a list of calibration points.
C14_InsufficientData ==
    /\ []((env.app = "fit" /\ f_res # NotCalled /\ Positive(f_ds) < 2)
            => f_res = Raised("ValueError"))
    /\ [][(RenderFitStep /\ Positive(PointDists) < 2) => metrics_txt' # "fit"]_vars

\* one positive distance among points that are filtered out
C14_Witness ==
    /\ env.app = "fit" /\ f_res = Raised("ValueError")
    /\ Len(f_ds) = MaxFitPts /\ Positive(f_ds) = 1

\* C15: for points generated from rssi = a0 + b0 log10(d), at least two of
\* them at distinct positive distances, fit_log_model returns a = a0, b = b0
\* and R2 = 1.
C15_ExactFit ==
    (/\ env.app = "fit" /\ f_res # NotCalled /\ f_gen.is = "line"
     /\ \E i, j \in 1..Len(f_ds) : f_ds[i] > 0 /\ f_ds[j] > 0 /\ f_ds[i] # f_ds[j])
        => /\ f_res.kind = "return"
           /\ f_res.a = Frac(f_gen.a0, 1)
           /\ f_res.b = Frac(f_gen.b0, 1)
           /\ f_res.r2 = Frac(1, 1)

\* three distinct distances, a line with a slope
C15_Witness ==
    /\ env.app = "fit" /\ f_res # NotCalled
    /\ f_ds = <<1, 10, 100>>
    /\ f_gen = [is |-> "line", a0 |-> -40, b0 |-> -20]
    /\ f_res.kind = "return" /\ f_res.a = <<-40, 1>> /\ f_res.b = <<-20, 1>>

\* ----------------------------------------------------------------- conversion
\* The two conversions from an RSSI to a distance, as functions of their
\* arguments.
ConvRssi == {-40, -60, -90, -100000}     \* dBm
ConvA0   == {-45, -55}                   \* A0 of server.py, rssi1m of CAL_INIT
ConvN10  == {0, 16, 22, 60}              \* ten times n: 0, the slider's range, N

ConvEnv == [app |-> "conv", log |-> FALSE, ips |-> {}, noisy |-> {}, skewed |-> {},
            maxacc |-> 0, maxops |-> 0, bound |-> NoMap, maxnow |-> T0]

Inf == [is |-> "inf"]

\* server.py, rssi_to_distance(rssi, a0, n): the same expression in a try
\* whose except returns float("inf")
rssi_to_distance(rssi, a0, n10) ==
    IF n10 = 0 THEN Inf
    ELSE IF a0 - rssi > 308 * n10 THEN Inf
    ELSE [is |-> "dist", e |-> <<a0 - rssi, n10>>]

InitConv ==
    /\ InitBase(ConvEnv)
    /\ f_ds = <<>> /\ f_ys = <<>> /\ f_gen = [is |-> "None"] /\ f_res = NotCalled
    /\ t_pts = <<>> /\ t_dd = <<>> /\ t_P = [is |-> "None"]
    /\ t_res = NotCalled /\ t_res3 = NotCalled
    /\ c_rssi \in ConvRssi /\ c_a0 \in ConvA0 /\ c_n10 \in ConvN10
    /\ c_res = NotCalled /\ c_res3 = NotCalled
    /\ b_in = NotCalled /\ b_res = NotCalled

convFrame == <<env, logVars, now, ip_to_key, last_ts, locVars, calVars, triVars, fitVars, calShown,
               bandVars, c_rssi, c_a0, c_n10>>

Conv_rssi_to_dist ==
    /\ env.app = "conv" /\ c_res = NotCalled
    /\ c_res' = rssi_to_dist(Float(c_rssi), c_a0, c_n10)
    /\ UNCHANGED <<convFrame, c_res3>>

Conv_rssi_to_distance ==
    /\ env.app = "conv" /\ c_res3 = NotCalled
    /\ c_res3' = rssi_to_distance(c_rssi, c_a0, c_n10)
    /\ UNCHANGED <<convFrame, c_res>>

ConvNext == Conv_rssi_to_dist \/ Conv_rssi_to_distance

SpecConv == InitConv /\ [][ConvNext]_vars

IsError(r) == r.is \in {"ZeroDivisionError", "OverflowError"}

\* C16: a conversion with path-loss exponent 0 ends in an error; neither
\* function returns inf or nan as the distance.
C16_ZeroExponentReported ==
    (env.app = "conv" /\ c_n10 = 0)
        => /\ c_res # NotCalled => IsError(c_res)
           /\ c_res3 # NotCalled => IsError(c_res3)

\* ----------------------------------------------------------------------- band
\* estimate_dist_band as a function of its arguments.  Distances are counted
\* in units of 0.1 mm, so that the table's distances and the estimates of the
\* model are integers; a distance rssi_to_dist gives is kept as its exponent.
\* CALIBRATION_STATS, lines 92-153: per host the rows in insertion order, here
\* the rows at 0 m, 0.25 m, 2 m and 10 m
Row(d, median, p5, p95) == [d |-> d, median |-> median, p5 |-> p5, p95 |-> p95]

CALIBRATION_STATS ==
    [h \in {"172.20.10.2", "172.20.10.3", "172.20.10.4"} |->
        CASE h = "172.20.10.2" -> <<Row(0, -33, -34, -32), Row(2500, -38, -39, -37),
                                    Row(20000, -63, -65, -60), Row(100000, -73, -75, -71)>>
          [] h = "172.20.10.3" -> <<Row(0, -30, -30, -29), Row(2500, -43, -44, -42),
                                    Row(20000, -66, -68, -63), Row(100000, -74, -77, -73)>>
          [] h = "172.20.10.4" -> <<Row(0, -28, -29, -27), Row(2500, -36, -37, -34),
                                    Row(20000, -60, -62, -59), Row(100000, -73, -75, -71)>>]

BandHosts  == DOMAIN CALIBRATION_STATS \cup {"172.20.10.9"}
BandRssi   == {5, -15, -35, -55, -75, -95}     \* dBm, the chunk median
BandRssi1m == {-75, -55, -35}                  \* dBm at 1 m
BandN10    == {20}                             \* ten times n, n = 2.0

BandEnv == [app |-> "band", log |-> FALSE, ips |-> {}, noisy |-> {}, skewed |-> {},
            maxacc |-> 0, maxops |-> 0, bound |-> NoMap, maxnow |-> T0]

RECURSIVE Pow10(_)
Pow10(k) == IF k = 0 THEN 1 ELSE 10 * Pow10(k - 1)

\* a distance of rssi_to_dist in units; the exponent is an integer from -4 on
InUnits(dist) == Pow10(dist.e[1] \div dist.e[2] + 4)

NoBand == [is |-> "None"]

\* lines 298-300: the positive distances of the table, or all if there is none
cal_dists_all(stats) == [i \in 1..Len(stats) |-> stats[i].d]

cal_dists(stats) ==
    LET pos == SelectSeq([i \in 1..Len(stats) |-> stats[i].d], LAMBDA d : d > 0)
    IN  IF pos # <<>> THEN pos ELSE [i \in 1..Len(stats) |-> stats[i].d]

\* line 303: min(cal_dists, key=lambda d: abs(d - d_est)), the first of the
\* nearest in the order of the list
MinByDist(ds, dest) ==
    LET best == CHOOSE i \in 1..Len(ds) :
                    /\ \A j \in 1..Len(ds) : Abs(ds[i] - dest) <= Abs(ds[j] - dest)
                    /\ \A j \in 1..(i - 1) : Abs(ds[j] - dest) > Abs(ds[i] - dest)
    IN  ds[best]

\* stats_ip[nearest]
RowAt(stats, d) == stats[CHOOSE i \in 1..Len(stats) : stats[i].d = d]

\* lines 306-320: the spread of the row around its median, laid on rssi_med
BandOf(row, rssi_med, rssi1m, n10) ==
    LET drssi_low  == Abs(row.median - row.p5)
        drssi_high == Abs(row.p95 - row.median)
        d_inner    == rssi_to_dist(Float(rssi_med + drssi_high), rssi1m, n10)
        d_outer    == rssi_to_dist(Float(rssi_med - drssi_low), rssi1m, n10)
    IN  IF d_inner.e[1] <= d_outer.e[1]
        THEN [d_min |-> d_inner, d_max |-> d_outer]
        ELSE [d_min |-> d_outer, d_max |-> d_inner]

\* estimate_dist_band(host_ip, rssi_med, rssi1m, n), lines 283-322
estimate_dist_band(host_ip, rssi_med, rssi1m, n10) ==
    IF host_ip \notin DOMAIN CALIBRATION_STATS THEN NoBand
    ELSE LET stats_ip == CALIBRATION_STATS[host_ip]
             d_est    == rssi_to_dist(Float(rssi_med), rssi1m, n10)
             nearest  == MinByDist(cal_dists(stats_ip), InUnits(d_est))
             band     == BandOf(RowAt(stats_ip, nearest), rssi_med, rssi1m, n10)
         IN  [is |-> "band", d_est |-> d_est, d_min |-> band.d_min, d_max |-> band.d_max]

InitBand ==
    /\ InitBase(BandEnv)
    /\ f_ds = <<>> /\ f_ys = <<>> /\ f_gen = [is |-> "None"] /\ f_res = NotCalled
    /\ t_pts = <<>> /\ t_dd = <<>> /\ t_P = [is |-> "None"]
    /\ t_res = NotCalled /\ t_res3 = NotCalled
    /\ c_rssi = 0 /\ c_a0 = 0 /\ c_n10 = 0 /\ c_res = NotCalled /\ c_res3 = NotCalled
    /\ b_in \in [host_ip : BandHosts, rssi_med : BandRssi, rssi1m : BandRssi1m, n10 : BandN10]
    /\ b_res = NotCalled

Band_estimate_dist_band ==
    /\ env.app = "band" /\ b_res = NotCalled
    /\ b_res' = estimate_dist_band(b_in.host_ip, b_in.rssi_med, b_in.rssi1m, b_in.n10)
    /\ UNCHANGED <<env, logVars, now, ip_to_key, last_ts, locVars, calVars, triVars, fitVars,
                   calShown, convVars, b_in>>

BandNext == Band_estimate_dist_band

SpecBand == InitBand /\ [][BandNext]_vars

\* the band the row at distance d of the host's table gives for the arguments
BandFromEntry(d) ==
    BandOf(RowAt(CALIBRATION_STATS[b_in.host_ip], d), b_in.rssi_med, b_in.rssi1m, b_in.n10)

\* the estimate of the model for the arguments, in units
DEst == Pow10((b_in.rssi1m - b_in.rssi_med) \div b_in.n10 + 4)

\* d is, among the distances ds, one numerically nearest to the estimate
NearestIn(d, ds) == d \in ds /\ \A o \in ds : Abs(d - DEst) <= Abs(o - DEst)

TableDists == {CALIBRATION_STATS[b_in.host_ip][i].d :
                  i \in 1..Len(CALIBRATION_STATS[b_in.host_ip])}

\* the result is the band of an entry of ds nearest to the estimate
BandOfNearest(ds) ==
    \E d \in ds :
        /\ NearestIn(d, ds)
        /\ b_res.d_min = BandFromEntry(d).d_min /\ b_res.d_max = BandFromEntry(d).d_max

BandCalled == env.app = "band" /\ b_res # NotCalled

\* C25 as the specification states it: no result exactly for a transmitter
\* without table entry; otherwise the band of the entry whose known distance
\* is nearest to d_est.
C25_Original ==
    BandCalled =>
        /\ b_res = NoBand <=> b_in.host_ip \notin DOMAIN CALIBRATION_STATS
        /\ b_res # NoBand => BandOfNearest(TableDists)

\* C25 as the code has it: the nearest entry is looked for among the entries
\* with a known distance > 0, and among all entries only if none is positive.
C25_Amended ==
    BandCalled =>
        /\ b_res = NoBand <=> b_in.host_ip \notin DOMAIN CALIBRATION_STATS
        /\ b_res # NoBand =>
              LET pos == {d \in TableDists : d > 0}
              IN  BandOfNearest(IF pos # {} THEN pos ELSE TableDists)

\* an estimate of 0.1 m for 172.20.10.3: the entry at 0 m is the nearest, the
\* band is the one of the entry at 0.25 m
C25_Witness ==
    /\ BandCalled /\ b_in.host_ip = "172.20.10.3" /\ DEst = 1000
    /\ NearestIn(0, TableDists)
    /\ b_res.d_min = BandFromEntry(2500).d_min /\ b_res.d_max = BandFromEntry(2500).d_max
    /\ BandFromEntry(2500) # BandFromEntry(0)

\* ------------------------------------------------------------ calibration points
\* the list the operations give: fix appends, undo removes the point appended
\* last (nothing on the empty list), clear empties
RECURSIVE Replay(_)
Replay(ops) ==
    IF ops = <<>> THEN <<>>
    ELSE LET before == Replay(SubSeq(ops, 1, Len(ops) - 1))
             o      == ops[Len(ops)]
         IN  CASE o.op = "fix"   -> before \o <<o.p>>
               [] o.op = "undo"  -> IF before = <<>> THEN <<>>
                                    ELSE SubSeq(before, 1, Len(before) - 1)
               [] o.op = "clear" -> <<>>

\* C17: after any sequence of Fix point, Undo and Clear the list of calibration
\* points is the list that append, remove-last and empty give, in that order.
C17_ListOps == env.app = "cal" => points = Replay(h_ops)

\* two different points fixed, then an undo: the first point is the one left
C17_Witness ==
    /\ env.app = "cal" /\ Len(h_ops) = 3
    /\ h_ops[1].op = "fix" /\ h_ops[2].op = "fix" /\ h_ops[3].op = "undo"
    /\ h_ops[1].p # h_ops[2].p
    /\ points = <<h_ops[1].p>>

\* the handler of Fix point appends its point
FixStep == env.app = "cal" /\ g_pc = "fix_snap" /\ g_pc' = "fix_clear"

\* C18: Fix point with a non-empty buffer appends exactly one point: the
\* selected anchor, the configured distance, and the median and the size of
\* one copy of that anchor's buffer, whatever the listener does meanwhile.
C18_FixSnapshot ==
    [][/\ (on_fix /\ buffers[state.selected_key] # <<>>) => g_pc' = "fix_snap"
       /\ FixStep =>
            LET snap == buffers[state.selected_key]
            IN  /\ snap # <<>>
                /\ points' = Append(points, [key     |-> state.selected_key,
                                             dist    |-> state.DIST,
                                             rssi    |-> Median(snap).v,
                                             samples |-> Len(snap)])
       /\ (env.app = "cal" /\ g_pc \in {"fix_clear", "fix_off"}) => points' = points]_vars

\* a point of two samples that differ, fixed before the listener has finished
\* the push of the second
C18_Witness ==
    /\ env.app = "cal" /\ g_pc = "fix_clear" /\ points # <<>>
    /\ points[Len(points)] = [key |-> state.selected_key, dist |-> state.DIST,
                              rssi |-> -55, samples |-> 2]
    /\ l_pc = "filloff"

\* C19: every calibration point in the list has distance > 0, whatever
\* distance the operator configures before Fix point.
C19_PositiveDistance ==
    env.app = "cal" => \A i \in 1..Len(points) : points[i].dist > 0

\* the listener and the GUI thread are between two pieces of work
CalAtRest == l_pc = "recv" /\ g_pc = "idle"

\* C20: while a recording session is active the recorder has one record for
\* every raw sample accepted and one for every point fixed in the session.
C20_OneRecordEach ==
    (env.app = "cal" /\ rec_active /\ CalAtRest)
        => Len(rec_rows) = h_rec.samples + h_rec.fixes

\* ------------------------------------------------------------ anchor binding
Bound == {ip \in IPs : ip_to_key[ip] # None}

\* the table the handler leaves behind when it started from table m
Rebound(m, label_key, ip) ==
    [x \in IPs |-> IF x = ip THEN label_key
                   ELSE IF m[x] = label_key THEN None ELSE m[x]]

\* C1: at every moment, intermediate states of a rebind included, no two
\* identifiers are bound to the same slot, every bound identifier is bound to
\* one of the slots A, B, C, and at most 3 identifiers are bound.
C1_Bindings ==
    /\ ip_to_key \in [IPs -> Keys \cup {None}]
    /\ \A x, y \in Bound : ip_to_key[x] = ip_to_key[y] => x = y
    /\ Cardinality(Bound) <= 3

\* a rebind half done: one of its two deletions is still to come
C1_Witness ==
    /\ g_pc = "del" /\ g_ip \in IPs
    /\ h_before[g_ip] \notin {None, g_label}
    /\ Cardinality(g_todel) = 1
    /\ Cardinality(Bound) = 2

\* C8: the step that completes rebind(id, slot) leaves id bound to slot,
\* whoever held the slot before unbound, id's previous slot free, and every
\* other binding as it was when the operator submitted.
C8_RebindEffect ==
    [][(g_pc = "set" /\ g_pc' = "idle")
         => /\ ip_to_key' = Rebound(h_before, g_label, g_ip)
            /\ ip_to_key'[g_ip] = g_label
            /\ \A x \in IPs \ {g_ip} : ip_to_key'[x] # g_label]_vars

\* the rebind moved an identifier off another slot and displaced a holder
C8_Witness ==
    /\ g_pc = "set"
    /\ h_before[g_ip] \notin {None, g_label}
    /\ \E x \in IPs \ {g_ip} : h_before[x] = g_label
    /\ \E x \in IPs \ {g_ip} : h_before[x] \notin {None, g_label}

\* C9: while a rebind is in progress the listener's lookup of an identifier
\* that is bound both before and after the rebind never finds it unbound.
C9_RebindAtomic ==
    [][(/\ l_pc = "recv" /\ l_pc' = "log"
        /\ g_pc \in {"del", "set"} /\ g_ip \in IPs
        /\ h_before[l_ip'] # None
        /\ Rebound(h_before, g_label, g_ip)[l_ip'] # None)
         => l_key' # None]_vars

\* C10 as the specification states it: while 3 slots are bound an observed
\* unbound identifier stays unbound, and once the operator has unbound a slot
\* the next observation of an unbound identifier binds it to the freed slot.
C10_Original ==
    [][(/\ l_pc = "recv" /\ l_pc' = "log"
        /\ g_pc = "idle"
        /\ ip_to_key[l_ip'] = None)
         => IF h_freed = {} \/ l_kind' # "ok"
            THEN Cardinality(Bound) = 3 => ip_to_key' = ip_to_key
            ELSE ip_to_key'[l_ip'] \in h_freed]_vars

\* C10: while 3 slots are bound nothing an observation does changes the
\* bindings.  The calibrator binds an unbound identifier to the first slot in
\* A, B, C order never assigned before, and never frees a slot.  In the
\* localiser only the operator's handler changes bindings: an observation
\* never binds, also after an unbind has freed a slot.
C10_Amended ==
    [][/\ (Cardinality(Bound) = 3 /\ (env.app = "cal" \/ g_pc = "idle"))
            => ip_to_key' = ip_to_key
       /\ env.app = "cal" =>
            /\ \A ip \in Bound : ip_to_key'[ip] = ip_to_key[ip]
            /\ ip_to_key' # ip_to_key =>
                 /\ unused_keys # <<>>
                 /\ unused_keys' = Tail(unused_keys)
                 /\ \E ip \in IPs \ Bound :
                      ip_to_key' = [ip_to_key EXCEPT ![ip] = Head(unused_keys)]
       /\ env.app = "loc" =>
            /\ ip_to_key' # ip_to_key => g_pc \in {"del", "set"}
            /\ (l_pc = "recv" /\ l_pc' = "log") => ip_to_key' = ip_to_key]_vars

\* after an unbind freed a slot, a well-formed packet of an unbound
\* identifier was observed and the identifier is still unbound
C10_Witness ==
    /\ env.app = "loc" /\ g_pc = "idle"
    /\ l_pc = "log" /\ l_kind = "ok" /\ l_key = None
    /\ ip_to_key[l_ip] = None
    /\ h_freed # {}
    /\ Cardinality(Bound) = 2

\* ------------------------------------------------------------------- buffers
\* the listener is between the statements of a push to k's buffer
MidPush(k) == l_key = k /\ l_pc \in {"append", "lenchk", "filloff"}

\* C2: once Start buffer has completed for an anchor and until the operator
\* clears its buffer or stops the fill, the buffer holds exactly the first
\* MED_WINDOW samples pushed since, in arrival order; pushes beyond them are
\* no-ops.
C2_Freeze ==
    \A k \in Keys :
        (env.app = "cal" /\ h_start[k] /\ ~MidPush(k)) => buffers[k] = h_pushed[k]

\* the localiser's listener is not between the statements that handle a sample of k
LocAtRest(k) == l_key # k \/ l_pc \in {"recv", "log"}

\* C3 as the specification states it: once CHUNK_N or more samples were pushed
\* to a bound anchor, its rssi_buf holds the CHUNK_N most recent ones.
C3_Original ==
    \A k \in Keys :
        (env.app = "loc" /\ LocAtRest(k) /\ Len(h_recent[k]) = CHUNK_N)
            => rssi_buf[k] = h_recent[k]

\* C3: rssi_buf always holds the most recent samples pushed, oldest first, but
\* only those pushed since the buffer was last emptied: it is emptied as soon
\* as it holds CHUNK_N samples, so between packets it holds fewer than CHUNK_N
\* and nothing is ever evicted.
C3_Amended ==
    \A k \in Keys :
        /\ IsSuffix(rssi_buf[k], h_recent[k])
        /\ (env.app = "loc" /\ LocAtRest(k)) => Len(rssi_buf[k]) < CHUNK_N

\* CHUNK_N + 1 samples were pushed, the buffer holds the last one
C3_Witness ==
    \E k \in Keys :
        /\ env.app = "loc" /\ LocAtRest(k)
        /\ Len(h_recent[k]) = CHUNK_N
        /\ h_recent[k][CHUNK_N - 1] # h_recent[k][CHUNK_N]
        /\ rssi_buf[k] = <<h_recent[k][CHUNK_N]>>

\* a sample was pushed to k within WINDOW_S seconds before tnow
PushedWithin(tnow, k) == h_push[k] >= 0 /\ tnow - h_push[k] <= WINDOW_S

\* C4: when the render loop tests an anchor for staleness, it finds it stale
\* if and only if no sample was pushed to it within WINDOW_S seconds before
\* the tick's now, whatever timestamp the packets carried.
C4_StaleIffNoPush ==
    (env.app = "loc" /\ g_pc = "stale" /\ LocAtRest(ANC_ORDER[g_k]))
        => (IsStale(g_now, ANC_ORDER[g_k]) <=> ~PushedWithin(g_now, ANC_ORDER[g_k]))

\* ------------------------------------------------------------------- display
\* the step of the render loop that decides what is displayed
EvalStep == env.app = "loc" /\ g_pc = "eval" /\ g_pc' = "idle"

\* slots that are bound to an identifier and have a known, numeric median
BoundValid ==
    {k \in Keys : ip_for_key(k) # None /\ chunk_med[k] \notin {MedNone, MedNaN}}

\* C5 as the specification states it: a position is shown only if at least 3
\* currently bound anchors have a valid distance; with fewer the dot is hidden
\* and the text says 3 anchors are needed.
C5_Original ==
    [][EvalStep =>
         /\ est_dot' = "shown" => Cardinality(BoundValid) >= 3
         /\ Cardinality(BoundValid) < 3
               => est_dot' = "hidden" /\ info_txt' = "(3 ankers nodig)"]_vars

\* C5: a position is shown only if all 3 slots have a chunk median, whether
\* or not an identifier is still bound to them; with fewer the dot is hidden
\* and the text says 3 anchors are needed.
C5_Amended ==
    [][EvalStep =>
         /\ est_dot' = "shown" => Cardinality(Pts) >= 3
         /\ Cardinality(Pts) < 3
               => est_dot' = "hidden" /\ info_txt' = "(3 ankers nodig)"]_vars

\* a position is on display although a slot has no identifier
C5_Witness ==
    /\ env.app = "loc" /\ g_pc = "idle"
    /\ est_dot = "shown" /\ info_txt = "EST"
    /\ Cardinality(Bound) < 3
    /\ Cardinality(Pts) = 3

\* ---------------------------------------------------------------- exclusion
\* the listener is between the first and the last access a push makes to k's
\* buffer (calibrator lines 218-222, localiser lines 375-383)
BufMidPush(k) ==
    /\ l_key = k
    /\ \/ env.app = "cal" /\ l_pc \in {"append", "lenchk"}
       \/ env.app = "loc" /\ l_pc \in {"ts", "len", "arr", "med", "clear"}

\* C11: while one thread is inside a push to an anchor's buffer, the other
\* thread neither clears that buffer nor takes a snapshot of it.
C11_MutualExclusion ==
    [][\A k \in Keys :
         (BufMidPush(k) /\ l_pc' = l_pc)
            => /\ buffers'[k] = buffers[k]
               /\ rssi_buf'[k] = rssi_buf[k]
               /\ (state.selected_key = k => points' = points)]_vars

\* ----------------------------------------------------------------- recording
\* the listener's step that appends a row to _rec_rows
RowAdded == env.app = "cal" /\ l_pc = "rec_append" /\ Len(rec_rows') = Len(rec_rows) + 1

\* C12: the dist_m of every recorded row is a distance that was configured
\* at an instant at which the row's anchor was the selected anchor.
C12_ConfigAtomic ==
    [][RowAdded => l_dist \in h_cfg]_vars

\* ------------------------------------------------------------------- errors
\* C13: no error of an evaluation cycle ends the render loop: the loop is
\* always either waiting for its next cycle or inside one.
C13_NeverFatal == g_pc # "dead"

\* ------------------------------------------------------------------ packets
\* the calibrator's listener has dealt with a packet it did not accept: the
\* listener is back at recvfrom and the GUI thread has not moved
CalDropStep ==
    /\ env.app = "cal" /\ l_pc = "recv" /\ l_pc' = "recv"
    /\ g_pc' = g_pc /\ n_ops' = n_ops

\* the localiser's listener takes a step with a packet whose fields are bad
LocMalformedStep ==
    /\ env.app = "loc" /\ l_pc' # l_pc
    /\ l_kind = "nofields" \/ l_kind' = "nofields"

\* C21: a malformed packet leaves the bindings, the free slots, every buffer,
\* every last-seen timestamp and the recorded rows as they were.
C21_MalformedDropped ==
    [][/\ CalDropStep => UNCHANGED <<ip_to_key, unused_keys, buffers, last_ts, rec_rows>>
       /\ LocMalformedStep => UNCHANGED <<ip_to_key, rssi_buf, chunk_med, last_ts>>]_vars

\* the localiser's listener has looked the sender up and found it unbound
UnboundSeen == env.app = "loc" /\ l_pc = "recv" /\ l_pc' = "log" /\ l_key' = None

\* ... and goes on with that packet
UnboundLogged == env.app = "loc" /\ l_pc = "log" /\ l_pc' # "log" /\ l_key = None

\* C22: the localiser only logs a packet of an identifier that is bound to no
\* slot: the identifier joins the seen set, a line joins the raw log, and no
\* buffer, last-seen timestamp, chunk median or binding changes.
C22_UnboundOnlyLogged ==
    [][/\ UnboundSeen =>
            /\ env.log => seen_ips' = seen_ips \cup {l_ip'}
            /\ UNCHANGED <<rssi_buf, last_ts, chunk_med, ip_to_key>>
       /\ UnboundLogged =>
            /\ l_pc' = "recv"
            /\ env.log => raw_log' # <<>> /\ raw_log'[1] = [ip |-> l_ip, k |-> None]
            /\ UNCHANGED <<rssi_buf, last_ts, chunk_med, ip_to_key>>]_vars

\* the newest log line is of an unbound sender, after a line of another
\* sender that is bound and has samples buffered
C22_Witness ==
    /\ env.app = "loc" /\ env.log /\ l_pc = "recv"
    /\ Len(raw_log) = 2 /\ raw_log[1].k = None /\ raw_log[2].k \in Keys
    /\ raw_log[1].ip \in seen_ips /\ ip_to_key[raw_log[1].ip] = None
    /\ rssi_buf[raw_log[2].k] # <<>>

\* ---------------------------------------------------------------- staleness
\* the render loop applies the timeout to one anchor
StaleStep == env.app = "loc" /\ g_pc = "stale" /\ <<g_pc, g_k>>' # <<g_pc, g_k>>

\* C23: at every evaluation tick the buffer and the median of a stale anchor
\* are cleared and the identifier-to-slot mapping stays exactly as it was.
C23_StalenessKeepsBindings ==
    [][/\ (env.app = "loc" /\ g_pc = "stale") => ip_to_key' = ip_to_key
       /\ StaleStep =>
            LET k == ANC_ORDER[g_k]
            IN  (g_now - last_ts[k] > WINDOW_S)
                    => /\ rssi_buf'[k] = <<>> /\ chunk_med'[k] = MedNone
                       /\ \A ip \in IPs : ip_to_key[ip] = k => ip_to_key'[ip] = k]_vars

\* anchor A is bound, its sender was heard at T0, the timeout has just cleared it
C23_Witness ==
    /\ env.app = "loc" /\ g_pc = "stale" /\ g_k = 2
    /\ \E ip \in IPs : ip_to_key[ip] = "A"
    /\ last_ts["A"] = T0 /\ g_now - last_ts["A"] > WINDOW_S
    /\ rssi_buf["A"] = <<>> /\ chunk_med["A"] = MedNone

\* ----------------------------------------------------------------- capacity
\* C24: every per-anchor sample buffer holds at most its capacity, MED_WINDOW
\* in the calibrator and CHUNK_N in the localiser.
C24_Capacity ==
    \A k \in Keys : Len(buffers[k]) <= MED_WINDOW /\ Len(rssi_buf[k]) <= CHUNK_N

\* the calibrator's buffer of A is full and the listener holds one more sample of A
C24_Witness ==
    /\ env.app = "cal" /\ Len(buffers["A"]) = MED_WINDOW
    /\ l_pc = "fill" /\ l_key = "A"

\* ---------------------------------------------------------------------------
\* C26: in the calibrator, once a Fix point action has completed, the anchor it
\* fixed has an empty buffer and its fill flag off, and both stay so until the
\* operator presses Start buffer, whatever the listener thread does meanwhile.
C26_FixLeavesEmpty ==
    (env.app = "cal" /\ h_fixed # "none") =>
        (buffers[h_fixed] = <<>> /\ ~fill_on[h_fixed])

\* ---------------------------------------------------------------------------
\* C27: after the operator has stopped a recording with Stop+Export, the
\* exported rows are exactly the rows of the session, and no row joins the
\* session afterwards, whatever the listener's record step does meanwhile.
C27_ExportIsSession ==
    (env.app = "cal" /\ ~rec_active /\ g_pc = "idle" /\ rec_rows # <<>>)
        => exported = rec_rows

\* ---------------------------------------------------------------------------
\* the senders of the samples that slot k's buffer and chunk median hold
HeldFrom(k) == {h_src.buf[k][i] : i \in DOMAIN h_src.buf[k]} \cup h_src.med[k]

\* C28: in the localiser the samples behind a slot's distance all come from
\* the identifier bound to the slot now: once a slot is rebound or unbound,
\* neither its buffer nor its chunk median holds a sample of the previous
\* identifier.
C28_OnlyBoundSender ==
    (env.app = "loc" /\ g_pc = "idle")
        => \A k \in Keys : \A ip \in HeldFrom(k) : ip_to_key[ip] = k

\* ---------------------------------------------------------------------------
\* C29: in the calibrator, once Start buffer has completed for an anchor, the
\* anchor's fill stays on as long as its buffer holds fewer than MED_WINDOW
\* samples and the operator has not selected an anchor, fixed a point or
\* restarted; no listener step switches the newly started fill off.
C29_FillStaysOn ==
    \A k \in Keys :
        (env.app = "cal" /\ h_start[k] /\ Len(buffers[k]) < MED_WINDOW) => fill_on[k]

\* ---------------------------------------------------------------------------
\* the staleness timeout sets k's chunk median to unknown
StaleReset(k) == g_pc = "stale" /\ chunk_med'[k] = MedNone

\* the listener stores the median of the CHUNK_N samples it took from k's
\* buffer
ChunkDone(k) ==
    /\ l_pc = "med" /\ l_key = k
    /\ Len(l_arr) = CHUNK_N
    /\ chunk_med'[k] = Median(l_arr)

\* C30: in the localiser an anchor's chunk median changes only when the
\* listener has appended the CHUNK_N-th sample of a chunk, and then to the
\* median of exactly those CHUNK_N samples, or when the staleness timeout
\* resets it to unknown.
C30_ChunkMedian ==
    [][\A k \in Keys :
         (env.app = "loc" /\ chunk_med'[k] # chunk_med[k])
            => (StaleReset(k) \/ ChunkDone(k))]_vars

====
